---- MODULE Spec2Model ----
(***************************************************************************)
(* The epoll client of src/client.c as a state machine.                    *)
(*                                                                         *)
(* One process, one thread.  main opens one connection per readable file   *)
(* named on the command line, registers every connection record with an    *)
(* edge-triggered epoll instance and then loops on epoll_wait while        *)
(* conn_cnt is positive.  Each returned event is handled by the EPOLLIN    *)
(* block (drain with recv, act on the result, look for "Ack\n") and then   *)
(* by the EPOLLOUT block (fread one buffer from the file and send it).     *)
(*                                                                         *)
(* The kernel, the peer and the allocator are the environment: the result  *)
(* of every system call the code branches on is drawn from a small set.    *)
(***************************************************************************)
EXTENDS Integers, Sequences, FiniteSets, TLC

\* ---------------------------------------------------------------- constants

\* #define BUFLEN 64
BUFLEN == 64

\* #define MAX_EVENTS 20
MAX_EVENTS == 20

\* Number of file names on the command line (argc - 1).
MaxFiles == 2

\* Largest number of positive recv results in one drain.
MaxRecv == 2

\* send may accept 1..MaxShort bytes of a longer request (a short send).
MaxShort == 1

\* Sizes of the files named on the command line: empty, shorter than the
\* buffer, exactly one buffer, one buffer and a remainder.
FileSizes == {0, 3, BUFLEN, BUFLEN + 3}

\* The acknowledgment token "Ack\n" and one byte of other data, as bytes.
AckToken == <<65, 99, 107, 10>>
OtherData == <<120>>

\* What one recv call can deliver.
Chunks == {AckToken, OtherData}

\* The first four bytes of an automatic buffer nobody has written yet are
\* indeterminate: they may or may not spell the token.
Indeterminate == {AckToken, <<0, 0, 0, 0>>}

\* errno values the code distinguishes, and one standing for all others.
RecvEnds == {"EAGAIN", "ECONNRESET", "ENOMEM", "SHUTDOWN"}
SendErrnos == {"EWOULDBLOCK", "EPIPE"}

Args == 1 .. MaxFiles

\* The standard streams, open from the start of the process.
StdFds == {0, 1, 2}

\* The descriptor socket() returns for the connection of argv[k]; never 0,
\* 1 or 2, which the process holds as its standard streams.
sockfd(k) == 2 + 2 * k

\* Bytes of a file are written as runs: the run <<a, b>> is the bytes at
\* offsets a .. b of the file (counted from 1), and a string of file bytes is
\* a sequence of runs in which no run continues the one before it.  Every
\* byte of a file differs from the others, so a dropped or repeated byte
\* shows on the wire.
FileContent(n) == IF n = 0 THEN <<>> ELSE <<<<1, n>>>>

\* The string runs followed by the bytes a .. b.
AppendRun(runs, a, b) ==
  IF b < a
    THEN runs
    ELSE IF runs # <<>> /\ runs[Len(runs)][2] + 1 = a
           THEN [runs EXCEPT ![Len(runs)] = <<@[1], b>>]
           ELSE Append(runs, <<a, b>>)

\* The string s is the start of the string t.
IsPrefix(s, t) ==
  \/ s = <<>>
  \/ /\ Len(s) = 1
     /\ Len(t) = 1
     /\ s[1][1] = t[1][1]
     /\ s[1][2] <= t[1][2]

NULL == "NULL"

\* Memory no record lives in (malloc has not returned it).
NoRecord == [socket_fd |-> 0, fp |-> NULL, buffer |-> <<>>]

VARIABLES
  pc,              \* where main is: open, register, loop, epollin, epollout, exited, returned
  exit_status,     \* the process status once pc is exited or returned
  argi,            \* i of the for loop over argv
  list,            \* the linked list connection_head .. connection_tail, as record ids
  conn,            \* id -> struct connection_ctx (socket_fd, fp, buffer)
  freed,           \* id -> number of free calls made for the record
  conn_cnt,
  epoll,           \* descriptors in the interest list of epollfd
  fds,             \* descriptors that are open in the process
  stream,          \* id -> the FILE behind fp: size, pos, open
  events,          \* the batch epoll_wait returned
  nfds,
  i,               \* index of the event being handled (0-based as in the code)
  total_bytes_in,
  acknowledged,
  buffer,          \* first four bytes of the automatic buffer of the EPOLLIN block
  received,
  recvs,           \* what the recv calls of the drain delivered, call by call
  errno,
  nbytes,
  sent,
  fin,             \* ids whose peer's end-of-stream recv has already reported
  wire,            \* id -> the bytes send has accepted, in order
  freads,          \* id -> the results of the fread calls made for the record
  closes           \* id -> number of close_connection calls made for the record

\* The server of src/server.c, a process of its own.
VARIABLES
  s_pc,            \* where the server's main is: start, wait, exited
  s_exit_status,   \* the server's status once s_pc is exited
  s_fds,           \* descriptors that are open in the server: listenfd, connfd
  s_epoll,         \* descriptors in the interest list of the server's epollfd
  accepted,        \* connections accept has returned a descriptor for
  msgsizes,        \* connection -> bytes the server's recv calls have returned
  dels,            \* connection -> number of EPOLL_CTL_DEL calls made for its connfd
  s_fin            \* connections whose end-of-stream the server's recv has reported

cvars == <<pc, exit_status, argi, list, conn, freed, conn_cnt, epoll, fds, stream,
           events, nfds, i, total_bytes_in, acknowledged, buffer, received, recvs,
           errno, nbytes, sent, fin, wire, freads, closes>>

svars == <<s_pc, s_exit_status, s_fds, s_epoll, accepted, msgsizes, dels, s_fin>>

vars == <<cvars, svars>>

\* errno when no call has failed.
NoError == "-"

locals == <<total_bytes_in, acknowledged, buffer, received, recvs, errno, nbytes, sent>>

\* The automatic variables of the loop body outside their lifetime, and errno,
\* which nothing reads until a later call has failed and set it again.
LocalsDead ==
  /\ total_bytes_in' = 0
  /\ acknowledged' = 0
  /\ buffer' = <<>>
  /\ received' = 0
  /\ recvs' = <<>>
  /\ errno' = NoError
  /\ nbytes' = 0
  /\ sent' = 0

Init ==
  /\ pc = "open"
  /\ exit_status = 0
  /\ argi = 1
  /\ list = <<>>
  /\ conn = [k \in Args |-> NoRecord]
  /\ freed = [k \in Args |-> 0]
  /\ conn_cnt = 0
  /\ epoll = {}
  /\ fds = StdFds
  /\ stream = [k \in Args |-> [size |-> 0, pos |-> 0, open |-> FALSE]]
  /\ events = <<>>
  /\ nfds = 0
  /\ i = 0
  /\ total_bytes_in = 0
  /\ acknowledged = 0
  /\ buffer = <<>>
  /\ received = 0
  /\ recvs = <<>>
  /\ errno = NoError
  /\ nbytes = 0
  /\ sent = 0
  /\ fin = {}
  /\ wire = [k \in Args |-> <<>>]
  /\ freads = [k \in Args |-> <<>>]
  /\ closes = [k \in Args |-> 0]
  /\ s_pc = "start"
  /\ s_exit_status = 0
  /\ s_fds = {}
  /\ s_epoll = {}
  /\ accepted = {}
  /\ msgsizes = [k \in Args |-> 0]
  /\ dels = [k \in Args |-> 0]
  /\ s_fin = {}

\* ------------------------------------------------------------------ startup

\* exit(status), from wherever it is called.
Exit(m, status) == [m EXCEPT !.pc = "exited", !.exit_status = status]

\* for ( int i = 1; i < argc; i++ ): fopen(argv[i]) fails, the name is skipped.
SkipArg ==
  /\ pc = "open"
  /\ argi <= MaxFiles
  /\ argi' = argi + 1
  /\ UNCHANGED <<pc, exit_status, list, conn, freed, conn_cnt, epoll, fds, stream,
                 events, nfds, i, locals, fin, wire, freads, closes>>
  /\ UNCHANGED svars

\* socket, connect or fcntl fails: exit(1).
SetupFails ==
  /\ pc = "open"
  /\ argi <= MaxFiles
  /\ \E size \in FileSizes :
       stream' = [stream EXCEPT ![argi] = [size |-> size, pos |-> 0, open |-> TRUE]]
  /\ pc' = "exited"
  /\ exit_status' = 1
  /\ UNCHANGED <<argi, list, conn, freed, conn_cnt, epoll, fds,
                 events, nfds, i, locals, fin, wire, freads, closes>>
  /\ UNCHANGED svars

\* The file opens and the socket connects; malloc returns a record or NULL.
\* The record is linked at the tail only when malloc returned one; conn_cnt is
\* incremented either way.
StoreConnection(records, new_conn, k, fp) ==
  IF new_conn # NULL
    THEN [list |-> Append(records.list, k),
          conn |-> [records.conn EXCEPT ![k] =
                      [socket_fd |-> sockfd(k), fp |-> fp, buffer |-> <<>>]]]
    ELSE records

OpenConnection ==
  /\ pc = "open"
  /\ argi <= MaxFiles
  /\ \E size \in FileSizes :
       stream' = [stream EXCEPT ![argi] = [size |-> size, pos |-> 0, open |-> TRUE]]
  /\ fds' = fds \cup {sockfd(argi)}
  /\ \E new_conn \in {NULL, "record"} :
       LET r == StoreConnection([list |-> list, conn |-> conn], new_conn, argi, "FILE")
       IN  /\ list' = r.list
           /\ conn' = r.conn
  /\ conn_cnt' = conn_cnt + 1
  /\ argi' = argi + 1
  /\ UNCHANGED <<pc, exit_status, freed, epoll, events, nfds, i, locals,
                 fin, wire, freads, closes>>
  /\ UNCHANGED svars

Range(s) == {s[k] : k \in 1 .. Len(s)}

\* epoll_create1 and the loop of epoll_ctl(EPOLL_CTL_ADD) over the list.
RegisterSockets ==
  /\ pc = "open"
  /\ argi > MaxFiles
  /\ \/ /\ epoll' = {conn[k].socket_fd : k \in Range(list)}
        /\ pc' = "loop"
        /\ UNCHANGED exit_status
     \/ /\ pc' = "exited"
        /\ exit_status' = 1
        /\ UNCHANGED epoll
  /\ UNCHANGED <<argi, list, conn, freed, conn_cnt, fds, stream,
                 events, nfds, i, locals, fin, wire, freads, closes>>
  /\ UNCHANGED svars

\* ------------------------------------------------------- closing a connection

\* The part of the state a handler threads through its calls.
Machine ==
  [pc |-> pc, exit_status |-> exit_status, conn |-> conn, conn_cnt |-> conn_cnt,
   epoll |-> epoll, fds |-> fds, closes |-> closes, acknowledged |-> acknowledged,
   stream |-> stream, wire |-> wire, freads |-> freads,
   nbytes |-> nbytes, sent |-> sent, errno |-> errno]

\* close_connection without the EPOLL_CTL_DEL: the descriptor is closed and
\* stays in the interest list.
close_connection_without_del(m, connfd) ==
  IF connfd \notin m.fds
    THEN Exit(m, 1)
    ELSE [m EXCEPT !.fds = @ \ {connfd}]

\* close_connection(epollfd, connfd): epoll_ctl(EPOLL_CTL_DEL) fails for a
\* descriptor that is not in the interest list, close fails for one that is
\* not open; either failure is exit(1).
close_connection(m, connfd) ==
  IF connfd \notin m.epoll
    THEN Exit(m, 1)
    ELSE IF connfd \notin m.fds
           THEN Exit([m EXCEPT !.epoll = @ \ {connfd}], 1)
           ELSE [m EXCEPT !.epoll = @ \ {connfd}, !.fds = @ \ {connfd}]

\* close_connection(epollfd, conn->socket_fd); conn->socket_fd = 0; conn_cnt--;
CloseAndCount(m, c) ==
  LET called == [m EXCEPT !.closes[c] = @ + 1]
      m1 == close_connection(called, m.conn[c].socket_fd)
  IN  IF m1.pc = "exited"
        THEN m1
        ELSE [m1 EXCEPT !.conn[c].socket_fd = 0, !.conn_cnt = @ - 1]

\* What clear_connection_ctx_list works on.
Resources ==
  [pc |-> pc, exit_status |-> exit_status, conn |-> conn,
   epoll |-> epoll, fds |-> fds, stream |-> stream, freed |-> freed]

\* clear_connection_ctx_list calling close for every record, without the test
\* of socket_fd.
RECURSIVE clear_connection_ctx_list_closing_all(_, _)
clear_connection_ctx_list_closing_all(r, head) ==
  IF head = <<>>
    THEN r
    ELSE LET k == Head(head)
             fd == r.conn[k].socket_fd
             r1 == IF fd \notin r.fds
                     THEN Exit(r, 1)
                     ELSE [r EXCEPT !.fds = @ \ {fd}, !.epoll = @ \ {fd}]
             r2 == IF NULL # r1.conn[k].fp
                     THEN [r1 EXCEPT !.stream[k].open = FALSE]
                     ELSE r1
         IN  IF r1.pc = "exited"
               THEN r1
               ELSE clear_connection_ctx_list_closing_all([r2 EXCEPT !.freed[k] = @ + 1],
                                                          Tail(head))

\* clear_connection_ctx_list(head), head being the records from the one the
\* walk stands at to the tail: close the socket when socket_fd is not 0
\* (exit(1) when close fails, which it does for a descriptor that is not
\* open), fclose the file when fp is not NULL, free the record, go to the
\* next.  Closing a descriptor also drops it from the interest list.
RECURSIVE clear_connection_ctx_list(_, _)
clear_connection_ctx_list(r, head) ==
  IF head = <<>>
    THEN r
    ELSE LET k == Head(head)
             fd == r.conn[k].socket_fd
             r1 == IF 0 # fd
                     THEN IF fd \notin r.fds
                            THEN Exit(r, 1)
                            ELSE [r EXCEPT !.fds = @ \ {fd}, !.epoll = @ \ {fd}]
                     ELSE r
             r2 == IF NULL # r1.conn[k].fp
                     THEN [r1 EXCEPT !.stream[k].open = FALSE]
                     ELSE r1
         IN  IF r1.pc = "exited"
               THEN r1
               ELSE clear_connection_ctx_list([r2 EXCEPT !.freed[k] = @ + 1], Tail(head))

\* The list is cleared and then the process ends with pc at end and the given
\* status, unless clear_connection_ctx_list has called exit itself.
ClearAndEnd(end, status) ==
  LET r == clear_connection_ctx_list(Resources, list)
  IN  /\ fds' = r.fds
      /\ epoll' = r.epoll
      /\ stream' = r.stream
      /\ freed' = r.freed
      /\ pc' = IF r.pc = "exited" THEN "exited" ELSE end
      /\ exit_status' = IF r.pc = "exited" THEN r.exit_status ELSE status

\* ------------------------------------------------------------ the event loop

\* The loop test written 0 <= conn_cnt.
LoopCondNotNegative(cnt) == 0 <= cnt

\* while ( 0 < conn_cnt )
LoopCond(cnt) == 0 < cnt

\* The record a registered descriptor was registered with (ev.data.ptr).
Registered == {k \in Range(list) : conn[k].socket_fd \in epoll}

Min(a, b) == IF a < b THEN a ELSE b

\* A batch: one event for each of some registered descriptors, in any order.
\* events[k].data.ptr is kept in the batch; the bits of events[k].events are
\* drawn where the code tests them.
Batches ==
  LET most == Min(MAX_EVENTS, Cardinality(Registered))
  IN  {b \in UNION {[1 .. n -> Registered] : n \in 1 .. most} :
         \A x, y \in 1 .. Len(b) : x # y => b[x] # b[y]}

\* epoll_wait returns a batch.
EpollWait ==
  /\ pc = "loop"
  /\ LoopCond(conn_cnt)
  /\ \E b \in Batches :
       /\ events' = b
       /\ nfds' = Len(b)
  /\ i' = 0
  /\ pc' = "epollin"
  /\ UNCHANGED <<exit_status, argi, list, conn, freed, conn_cnt, epoll, fds, stream,
                 locals, fin, wire, freads, closes>>
  /\ UNCHANGED svars

\* epoll_wait returns -1 with EINTR: a signal was caught.
EpollWaitInterrupted ==
  /\ pc = "loop"
  /\ LoopCond(conn_cnt)
  /\ errno' = "EINTR"
  /\ ClearAndEnd("exited", 0)
  /\ UNCHANGED <<argi, list, conn, conn_cnt, events, nfds, i, total_bytes_in,
                 acknowledged, buffer, received, recvs, nbytes, sent,
                 fin, wire, freads, closes>>
  /\ UNCHANGED svars

\* epoll_wait returns -1 with any other errno.
EpollWaitFails ==
  /\ pc = "loop"
  /\ LoopCond(conn_cnt)
  /\ errno' = "EBADF"
  /\ pc' = "exited"
  /\ exit_status' = 1
  /\ UNCHANGED <<argi, list, conn, freed, conn_cnt, epoll, fds, stream,
                 events, nfds, i, total_bytes_in, acknowledged, buffer, received,
                 recvs, nbytes, sent, fin, wire, freads, closes>>
  /\ UNCHANGED svars

\* The loop condition is false: clear the list and fall off the end of main.
LoopExit ==
  /\ pc = "loop"
  /\ ~LoopCond(conn_cnt)
  /\ ClearAndEnd("returned", 0)
  /\ UNCHANGED <<argi, list, conn, conn_cnt, events, nfds, i, locals,
                 fin, wire, freads, closes>>
  /\ UNCHANGED svars

\* ------------------------------------------------------------ EPOLLIN block

\* recv(conn->socket_fd, buffer, sizeof(buffer), 0) writes what it received at
\* the start of buffer and leaves the rest of buffer as it was.
Overlay(buf, chunk) ==
  [k \in 1 .. 4 |-> IF k <= Len(chunk) THEN chunk[k] ELSE buf[k]]

\* The drain with total_bytes_in = received in place of +=.
RECURSIVE DrainKeepsLast(_, _)
DrainKeepsLast(d, chunks) ==
  IF chunks = <<>>
    THEN d
    ELSE DrainKeepsLast([total_bytes_in |-> Len(Head(chunks)),
                         buffer |-> Overlay(d.buffer, Head(chunks))],
                        Tail(chunks))

\* while ( 0 < ( received = recv(...) ) ) total_bytes_in += received;
\* over the chunks the calls deliver: the count and the buffer it leaves.
RECURSIVE Drain(_, _)
Drain(d, chunks) ==
  IF chunks = <<>>
    THEN d
    ELSE Drain([total_bytes_in |-> d.total_bytes_in + Len(Head(chunks)),
                buffer |-> Overlay(d.buffer, Head(chunks))],
               Tail(chunks))

\* What the calls of one drain can return: up to MaxRecv chunks, then the
\* result that ends the loop.  Once recv has reported the peer's shutdown no
\* data follows it.
RecvScripts(c) ==
  LET seqs == UNION {[1 .. n -> Chunks] : n \in 0 .. MaxRecv}
  IN  IF c \in fin
        THEN [chunks : {<<>>}, end : RecvEnds \ {"EAGAIN"}]
        ELSE [chunks : seqs, end : RecvEnds]

\* The switch with case 0 closing only when the drain did receive bytes.
RecvSwitchClosesAfterData(m, c, end, total) ==
  CASE end = "EAGAIN" -> m
    [] end = "ECONNRESET" -> CloseAndCount(m, c)
    [] end = "SHUTDOWN" -> IF 0 # total THEN CloseAndCount(m, c) ELSE m
    [] OTHER -> Exit(m, 1)

\* switch ( received ): -1 with errno, or 0.
RecvSwitch(m, c, end, total) ==
  CASE end = "EAGAIN" -> m
    [] end = "ECONNRESET" -> CloseAndCount(m, c)
    [] end = "SHUTDOWN" -> IF 0 = total THEN CloseAndCount(m, c) ELSE m
    [] OTHER -> Exit(m, 1)

\* The token test closing the connection whether or not fp is NULL.
AckCheckClosesAlways(m, c, buf) ==
  IF buf = AckToken
    THEN CloseAndCount([m EXCEPT !.acknowledged = 1], c)
    ELSE m

\* if ( 0 == strncmp(buffer, "Ack\n", 4) )
AckCheck(m, c, buf) ==
  IF buf = AckToken
    THEN LET m1 == [m EXCEPT !.acknowledged = 1]
         IN  IF NULL = m1.conn[c].fp THEN CloseAndCount(m1, c) ELSE m1
    ELSE m

\* The whole EPOLLIN block for record c.
ReadReady(m, c, junk, script) ==
  LET d == Drain([total_bytes_in |-> 0, buffer |-> junk], script.chunks)
      m1 == RecvSwitch(m, c, script.end, d.total_bytes_in)
  IN  IF m1.pc = "exited" THEN m1 ELSE AckCheck(m1, c, d.buffer)

Commit(m) ==
  /\ pc' = m.pc
  /\ exit_status' = m.exit_status
  /\ conn' = m.conn
  /\ conn_cnt' = m.conn_cnt
  /\ epoll' = m.epoll
  /\ fds' = m.fds
  /\ closes' = m.closes
  /\ acknowledged' = m.acknowledged
  /\ stream' = m.stream
  /\ wire' = m.wire
  /\ freads' = m.freads
  /\ nbytes' = m.nbytes
  /\ sent' = m.sent

\* An event is taken from the batch; total_bytes_in and acknowledged start at
\* 0; the EPOLLIN block runs when the event has EPOLLIN.
EpollIn ==
  /\ pc = "epollin"
  /\ LET c == events[i + 1]
     IN  \/ \E junk \in Indeterminate, script \in RecvScripts(c) :
                  LET d == Drain([total_bytes_in |-> 0, buffer |-> junk], script.chunks)
                      m == ReadReady([Machine EXCEPT !.pc = "epollout", !.acknowledged = 0],
                                     c, junk, script)
                  IN  /\ Commit(m)
                      /\ total_bytes_in' = d.total_bytes_in
                      /\ buffer' = d.buffer
                      /\ received' = IF script.end = "SHUTDOWN" THEN 0 ELSE -1
                      /\ recvs' = script.chunks
                      /\ errno' = IF script.end = "SHUTDOWN" THEN NoError ELSE script.end
                      /\ fin' = IF script.end = "SHUTDOWN" THEN fin \cup {c} ELSE fin
         \/ /\ pc' = "epollout"
            /\ total_bytes_in' = 0
            /\ acknowledged' = 0
            /\ UNCHANGED <<exit_status, conn, conn_cnt, epoll, fds, closes,
                               buffer, received, recvs, errno, fin, stream, wire,
                               freads, nbytes, sent>>
  /\ UNCHANGED <<argi, list, freed, events, nfds, i>>
  /\ UNCHANGED svars

\* ----------------------------------------------------------- EPOLLOUT block

\* fread(conn->buffer, sizeof(char), BUFLEN, conn->fp): the bytes from pos, at
\* most BUFLEN of them, land at the start of conn->buffer.
Fread(st) == Min(BUFLEN, st.size - st.pos)

\* conn->buffer after the call: its first n bytes are the run read; what
\* lies behind them is never sent and is not kept.
ReadInto(buf, st, n) == IF n = 0 THEN buf ELSE <<st.pos + 1, st.pos + n>>

\* What send(conn->socket_fd, conn->buffer, nbytes, 0) can return: all of the
\* bytes, fewer of them, or -1.
SendResults(n) == {k \in 1 .. MaxShort : k < n} \cup {n, -1}

\* The end-of-file test written nbytes <= BUFLEN.
ReachedEndOfFileOrFull(n) == n <= BUFLEN

\* if ( nbytes < BUFLEN ): the read reached the end of the file.
ReachedEndOfFile(n) == n < BUFLEN

\* fclose(conn->fp); conn->fp = NULL;
CloseFile(m, c) ==
  [m EXCEPT !.stream[c].open = FALSE, !.conn[c].fp = NULL]

\* The branch for 0 != nbytes closing the connection with the file when the
\* read was short and acknowledged is set.
SendBufferClosesWhenAcknowledged(m, c, result, err) ==
  LET m1 == [m EXCEPT !.sent = result]
  IN  IF -1 = result
        THEN Exit([m1 EXCEPT !.errno = err], 1)
        ELSE LET first == m1.conn[c].buffer[1]
                 m2 == [m1 EXCEPT !.wire[c] = AppendRun(@, first, first + result - 1)]
             IN  IF ReachedEndOfFile(m2.nbytes)
                   THEN IF 0 # m2.acknowledged
                          THEN CloseAndCount(CloseFile(m2, c), c)
                          ELSE CloseFile(m2, c)
                   ELSE m2

\* The branch for 0 != nbytes: send, exit(1) when send returns -1, close the
\* file when the read was short.
SendBuffer(m, c, result, err) ==
  LET m1 == [m EXCEPT !.sent = result]
  IN  IF -1 = result
        THEN Exit([m1 EXCEPT !.errno = err], 1)
        ELSE LET first == m1.conn[c].buffer[1]
                 m2 == [m1 EXCEPT !.wire[c] = AppendRun(@, first, first + result - 1)]
             IN  IF ReachedEndOfFile(m2.nbytes) THEN CloseFile(m2, c) ELSE m2

\* The branch for 0 == nbytes closing the connection without looking at
\* acknowledged.
AlreadyEndOfFileCloses(m, c) == CloseAndCount(CloseFile(m, c), c)

\* The branch for 0 == nbytes: the file had ended at the previous read.
AlreadyEndOfFile(m, c) ==
  LET m1 == CloseFile(m, c)
  IN  IF 0 # m1.acknowledged THEN CloseAndCount(m1, c) ELSE m1

\* The EPOLLOUT block without the test of conn->socket_fd.
WriteReadyOnClosed(m, c, result, err) ==
  IF NULL # m.conn[c].fp
    THEN LET n == Fread(m.stream[c])
             m1 == [m EXCEPT !.nbytes = n,
                             !.conn[c].buffer = ReadInto(@, m.stream[c], n),
                             !.stream[c].pos = @ + n,
                             !.freads[c] = Append(@, n)]
         IN  IF 0 # n THEN SendBuffer(m1, c, result, err) ELSE AlreadyEndOfFile(m1, c)
    ELSE m

\* The whole EPOLLOUT block for record c.
WriteReady(m, c, result, err) ==
  IF NULL # m.conn[c].fp /\ 0 # m.conn[c].socket_fd
    THEN LET n == Fread(m.stream[c])
             m1 == [m EXCEPT !.nbytes = n,
                             !.conn[c].buffer = ReadInto(@, m.stream[c], n),
                             !.stream[c].pos = @ + n,
                             !.freads[c] = Append(@, n)]
         IN  IF 0 # n THEN SendBuffer(m1, c, result, err) ELSE AlreadyEndOfFile(m1, c)
    ELSE m

\* The EPOLLOUT block runs when the event has EPOLLOUT; then the body of the
\* for loop ends, and with it the lifetime of its automatic variables.  After
\* the last event of the batch the for loop ends too: i and nfds are gone and
\* nothing reads the batch again.
EpollOut ==
  /\ pc = "epollout"
  /\ LET c == events[i + 1]
         more == i + 1 < nfds
         next == IF more THEN "epollin" ELSE "loop"
         reads == /\ NULL # conn[c].fp
                  /\ 0 # conn[c].socket_fd
                  /\ 0 # Fread(stream[c])
     IN  \E EPOLLOUT \in BOOLEAN,
            result \in (IF reads THEN SendResults(Fread(stream[c])) ELSE {0}),
            err \in SendErrnos :
           /\ (result # -1 => err = "EPIPE")
           /\ LET m == IF EPOLLOUT
                         THEN WriteReady([Machine EXCEPT !.pc = next], c, result, err)
                         ELSE [Machine EXCEPT !.pc = next]
              IN  IF m.pc = "exited"
                    THEN /\ Commit(m)
                         /\ errno' = m.errno
                         /\ UNCHANGED <<i, nfds, events, total_bytes_in, buffer,
                                        received, recvs>>
                    ELSE /\ pc' = m.pc
                         /\ exit_status' = m.exit_status
                         /\ conn' = m.conn
                         /\ conn_cnt' = m.conn_cnt
                         /\ epoll' = m.epoll
                         /\ fds' = m.fds
                         /\ closes' = m.closes
                         /\ stream' = m.stream
                         /\ wire' = m.wire
                         /\ freads' = m.freads
                         /\ LocalsDead
                         /\ i' = IF more THEN i + 1 ELSE 0
                         /\ nfds' = IF more THEN nfds ELSE 0
                         /\ events' = IF more THEN events ELSE <<>>
  /\ UNCHANGED <<argi, list, freed, fin>>
  /\ UNCHANGED svars

Next ==
  \/ SkipArg
  \/ SetupFails
  \/ OpenConnection
  \/ RegisterSockets
  \/ EpollWait
  \/ EpollWaitInterrupted
  \/ EpollWaitFails
  \/ LoopExit
  \/ EpollIn
  \/ EpollOut

Spec == Init /\ [][Next]_vars

\* ------------------------------------------------------------------- claims

Last(s) == s[Len(s)]

\* The records whose channel is open: socket_fd is not 0.
Open == {k \in Range(list) : conn[k].socket_fd # 0}

InLoop == pc \in {"loop", "epollin", "epollout"}

\* C1: whenever the driver is about to call epoll_wait, and at loop exit,
\* conn_cnt is the number of records whose channel is still open.
C1_CountIsOpenRecords ==
  pc \in {"loop", "returned"} => conn_cnt = Cardinality(Open)

\* C2: from the loop test the driver calls epoll_wait exactly when conn_cnt is
\* positive; otherwise the loop ends with every record closed, deregistered
\* and freed, and main returns 0.
C2_LoopRunsWhilePositive ==
  [][pc = "loop" =>
       IF 0 < conn_cnt
         THEN pc' \in {"epollin", "exited"}
         ELSE /\ pc' = "returned"
              /\ exit_status' = 0
              /\ conn_cnt = 0
              /\ \A k \in Range(list) : freed'[k] = 1
              /\ \A k \in Range(list) :
                   /\ conn'[k].socket_fd = 0
                   /\ sockfd(k) \notin epoll'
                   /\ sockfd(k) \notin fds']_vars

\* Both connections were opened, both reached CLOSED, and main returned.
C2_Witness ==
  /\ pc = "returned"
  /\ Len(list) = 2
  /\ \A k \in Range(list) : closes[k] = 1

\* C3: while the loop runs, a record's channel is in the interest list if and
\* only if the record is not CLOSED.
C3_RegisteredIffNotClosed ==
  InLoop => \A k \in Range(list) : (sockfd(k) \in epoll) <=> (conn[k].socket_fd # 0)

\* One record is CLOSED and deregistered while another is still registered.
C3_Witness ==
  /\ pc = "loop"
  /\ \E k, j \in Range(list) :
       /\ conn[k].socket_fd = 0
       /\ sockfd(k) \notin epoll
       /\ conn[j].socket_fd # 0
       /\ sockfd(j) \in epoll

\* C4: close_connection is called at most once for a record.
C4_ClosedAtMostOnce ==
  \A k \in Args : closes[k] <= 1

\* C5: with two connections open, a drain that ends in ECONNRESET closes only
\* that connection, decrements conn_cnt by one, leaves the other record as it
\* was and leaves the process running.
C5_ResetClosesOnlyThatConnection ==
  [][(pc = "epollin" /\ Cardinality(Open) = 2 /\ received' = -1 /\ errno' = "ECONNRESET") =>
       LET c == events[i + 1]
       IN  /\ pc' # "exited"
           /\ conn'[c].socket_fd = 0
           /\ conn_cnt' = conn_cnt - 1
           /\ \A d \in Range(list) \ {c} :
                conn'[d] = conn[d] /\ stream'[d] = stream[d]]_vars

\* C6: a send that fails with an errno other than EWOULDBLOCK, or a recv that
\* fails irrecoverably, does not end the process.
C6_IoFailureKeepsProcess ==
  ((sent = -1 /\ errno # "EWOULDBLOCK") \/ (sent # -1 /\ received = -1 /\ errno = "ENOMEM"))
    => pc # "exited"

\* C7: a send that fails with EWOULDBLOCK leaves the process running and the
\* connection open.
C7_WouldBlockIsNoError ==
  (sent = -1 /\ errno = "EWOULDBLOCK") =>
    /\ pc # "exited"
    /\ conn[events[i + 1]].socket_fd # 0

\* C8: the bytes the channel has accepted are a prefix of the file.
C8_WireIsPrefixOfSource ==
  \A k \in Range(list) : IsPrefix(wire[k], FileContent(stream[k].size))

\* C9 as claimed: the source is discarded only by a cycle whose read yields
\* zero bytes.
C9_DiscardedOnlyOnZeroRead ==
  \A k \in Range(list) :
    conn[k].fp = NULL => freads[k] # <<>> /\ Last(freads[k]) = 0

\* C9 as amended: the source is discarded by the cycle whose read yields fewer
\* than BUFLEN bytes, and a read of exactly BUFLEN bytes leaves it present.
C9_DiscardedOnShortRead ==
  \A k \in Range(list) :
    /\ conn[k].fp = NULL => freads[k] # <<>> /\ Last(freads[k]) < BUFLEN
    /\ (conn[k].fp # NULL /\ pc # "exited") =>
         \A j \in 1 .. Len(freads[k]) : freads[k][j] = BUFLEN

\* A 3-byte file was read, sent and discarded by one cycle.
C9_Witness ==
  \E k \in Range(list) :
    /\ stream[k].size = 3
    /\ freads[k] = <<3>>
    /\ wire[k] = <<<<1, 3>>>>
    /\ conn[k].fp = NULL
    /\ pc = "loop"

\* C10: the cycle that reads the last BUFLEN bytes of the file sends them and
\* leaves the source present and the connection open; the next cycle of that
\* record reads zero bytes, sends nothing and discards the source, and closes
\* the connection exactly when acknowledged is set.
C10_FullBufferThenZeroRead ==
  [][\A k \in Range(list) :
       freads'[k] # freads[k] =>
         /\ (Last(freads'[k]) = BUFLEN /\ stream'[k].pos = stream'[k].size /\ pc' # "exited") =>
              /\ conn'[k].fp # NULL
              /\ conn'[k].socket_fd # 0
              /\ wire'[k] # wire[k]
         /\ (freads[k] # <<>> /\ Last(freads[k]) = BUFLEN /\ stream[k].pos = stream[k].size) =>
              /\ Last(freads'[k]) = 0
              /\ wire'[k] = wire[k]
              /\ conn'[k].fp = NULL
              /\ ~stream'[k].open
              /\ pc' # "exited"
              /\ (acknowledged = 0 => conn'[k].socket_fd # 0 /\ conn_cnt' = conn_cnt)
              /\ (acknowledged # 0 => conn'[k].socket_fd = 0 /\ conn_cnt' = conn_cnt - 1)]_vars

\* A file of exactly BUFLEN bytes was read in full, then found at its end, and
\* the connection waits for the acknowledgment.
C10_Witness ==
  \E k \in Range(list) :
    /\ stream[k].size = BUFLEN
    /\ freads[k] = <<BUFLEN, 0>>
    /\ wire[k] = <<<<1, BUFLEN>>>>
    /\ conn[k].fp = NULL
    /\ conn[k].socket_fd # 0

\* The sum of the byte counts the recv calls of the drain returned.
RECURSIVE Sum(_)
Sum(s) == IF s = <<>> THEN 0 ELSE Len(Head(s)) + Sum(Tail(s))

\* C11: the EPOLLIN block leaves its recv loop only on a result that is not
\* positive (0, or -1 with an errno), the handler goes on to the EPOLLOUT
\* block or exits and never back to epoll_wait from the drain, and
\* total_bytes_in is the sum of the positive results of the drain.
C11_DrainsToNonPositive ==
  /\ received \in {0, -1}
  /\ total_bytes_in = Sum(recvs)
  /\ \A k \in 1 .. Len(recvs) : 0 < Len(recvs[k])
  /\ recvs # <<>> =>
       /\ pc \in {"epollout", "exited"}
       /\ (received = -1 /\ sent # -1) => errno \in RecvEnds \ {"SHUTDOWN"}

\* A drain of two positive results, 1 and 4 bytes, ended by EAGAIN.
C11_Witness ==
  /\ pc = "epollout"
  /\ recvs = <<OtherData, AckToken>>
  /\ total_bytes_in = 5
  /\ received = -1
  /\ errno = "EAGAIN"

\* The EPOLLIN block of the event being handled has just run: its automatic
\* buffer exists only inside that block.
DrainRan == pc = "epollin" /\ buffer' # <<>>

\* C12: a drain that ends with recv returning 0 and total_bytes_in = 0 closes
\* the connection of the event, with fp set or NULL: the descriptor leaves the
\* interest list and is closed, socket_fd is 0 and conn_cnt is one less.  No
\* byte is sent by that step nor by any later step for a closed record, so a
\* connection shut down at its first event never sends a byte of its file.
C12_ShutdownWithNothingReadCloses ==
  [][/\ (DrainRan /\ received' = 0 /\ total_bytes_in' = 0) =>
          LET c == events[i + 1]
          IN  /\ conn[c].socket_fd # 0
              /\ conn'[c].socket_fd = 0
              /\ sockfd(c) \notin epoll'
              /\ sockfd(c) \notin fds'
              /\ conn_cnt' = conn_cnt - 1
              /\ wire'[c] = wire[c]
     /\ \A k \in Range(list) :
          conn[k].socket_fd = 0 => wire'[k] = wire[k] /\ freads'[k] = freads[k]]_vars

\* The drain of a connection whose file had been sent whole has just ended in
\* recv returning 0 with nothing read and closed it, after another connection
\* was shut down by its peer before any cycle had read its file.
C12_Witness ==
  /\ pc = "epollout"
  /\ buffer # <<>> /\ received = 0 /\ total_bytes_in = 0
  /\ \E k \in Range(list) :
       LET j == events[i + 1]
       IN  /\ k # j
           /\ conn[k].socket_fd = 0 /\ k \in fin /\ conn[k].fp # NULL
           /\ freads[k] = <<>> /\ wire[k] = <<>> /\ stream[k].size > 0
           /\ conn[j].socket_fd = 0 /\ conn[j].fp = NULL /\ wire[j] # <<>>
           /\ closes[k] = 1 /\ closes[j] = 1
           /\ conn_cnt = 0

\* C13: a drain whose first recv returns -1 with EAGAIN leaves the record of
\* the event as it was: socket_fd, its registration, fp, the file behind it
\* and conn_cnt are unchanged.
C13_WouldBlockFirstChangesNothing ==
  [][(DrainRan /\ recvs' = <<>> /\ received' = -1 /\ errno' = "EAGAIN") =>
       /\ conn' = conn
       /\ stream' = stream
       /\ epoll' = epoll
       /\ fds' = fds
       /\ conn_cnt' = conn_cnt]_vars

\* C14: when fp is NULL and the connection is open, a drain in which a recv
\* delivers "Ack\n" and which ends in EAGAIN closes the connection in the same
\* event: the descriptor leaves the interest list and is closed, socket_fd is
\* 0 and conn_cnt is one less.
C14_AckWhileAwaitingCloses ==
  [][(/\ DrainRan
      /\ conn[events[i + 1]].fp = NULL
      /\ conn[events[i + 1]].socket_fd # 0
      /\ AckToken \in Range(recvs')
      /\ errno' = "EAGAIN") =>
       LET c == events[i + 1]
       IN  /\ conn'[c].socket_fd = 0
           /\ sockfd(c) \notin epoll'
           /\ sockfd(c) \notin fds'
           /\ conn_cnt' = conn_cnt - 1]_vars

\* C15: a connection whose fp is set is closed only by a drain that ends in
\* recv returning 0 or ECONNRESET, or by an EPOLLOUT cycle whose fread returns
\* 0; a drain that delivers "Ack\n" and ends in EAGAIN while fp is set leaves
\* the connection open and registered and conn_cnt as it was.
C15_AckAloneDoesNotClose ==
  [][/\ \A k \in Range(list) :
          (conn[k].fp # NULL /\ conn[k].socket_fd # 0 /\ conn'[k].socket_fd = 0) =>
            \/ DrainRan /\ k = events[i + 1] /\ (received' = 0 \/ errno' = "ECONNRESET")
            \/ /\ pc = "epollout" /\ k = events[i + 1]
               /\ freads'[k] = Append(freads[k], 0)
     /\ (/\ DrainRan
         /\ conn[events[i + 1]].fp # NULL
         /\ AckToken \in Range(recvs')
         /\ errno' = "EAGAIN") =>
          LET c == events[i + 1]
          IN  /\ conn'[c] = conn[c]
              /\ sockfd(c) \in epoll'
              /\ sockfd(c) \in fds'
              /\ conn_cnt' = conn_cnt]_vars

\* The token has been received and noted while the file is still being sent,
\* and the connection is open and registered.
C15_Witness ==
  /\ pc = "epollout"
  /\ recvs = <<AckToken>>
  /\ errno = "EAGAIN"
  /\ acknowledged = 1
  /\ LET c == events[i + 1]
     IN  /\ conn[c].fp # NULL
         /\ wire[c] # <<>>
         /\ conn[c].socket_fd # 0
         /\ sockfd(c) \in epoll

\* C16, for the event in which the token is observed: when the drain of an
\* event has received "Ack\n" while fp was set, and the EPOLLOUT block of the
\* same event finds the end of the file (a short or a zero-byte read) and
\* closes it, the connection is closed by that cycle.
C16_NotedAckClosesOnExhaustion ==
  [][(/\ pc = "epollout"
      /\ acknowledged = 1
      /\ recvs # <<>> /\ Last(recvs) = AckToken
      /\ conn[events[i + 1]].fp # NULL
      /\ conn'[events[i + 1]].fp = NULL) =>
       LET c == events[i + 1]
       IN  /\ conn'[c].socket_fd = 0
           /\ sockfd(c) \notin epoll'
           /\ conn_cnt' = conn_cnt - 1]_vars

\* C17: when fp is NULL and the connection is open, a drain that ends in
\* EAGAIN and in which no recv delivered "Ack\n" leaves the connection open
\* and registered and conn_cnt as it was.
C17_NoTokenNoClose ==
  [][(/\ DrainRan
      /\ conn[events[i + 1]].fp = NULL
      /\ conn[events[i + 1]].socket_fd # 0
      /\ AckToken \notin Range(recvs')
      /\ errno' = "EAGAIN") =>
       LET c == events[i + 1]
       IN  /\ conn'[c].socket_fd # 0
           /\ sockfd(c) \in epoll'
           /\ conn_cnt' = conn_cnt
           /\ closes'[c] = closes[c]]_vars

\* The protocol state of record k, read from its fields: STREAMING while fp
\* is set and the socket is open, AWAITING_ACK once fp is NULL, CLOSED once
\* socket_fd is 0.
STREAMING(k) == conn[k].socket_fd # 0 /\ conn[k].fp # NULL
AWAITING_ACK(k) == conn[k].socket_fd # 0 /\ conn[k].fp = NULL
CLOSED(k) == conn[k].socket_fd = 0

\* C18 as claimed: no step takes a record from STREAMING to CLOSED.
C18_ClosedOnlyViaAwaitingAck ==
  [][\A k \in Range(list) : STREAMING(k) => ~CLOSED(k)']_vars

\* C18 as amended: a step takes a record from STREAMING to CLOSED only when it
\* is the drain of the record's event ending in ECONNRESET or in recv
\* returning 0 with nothing read, or the EPOLLOUT cycle of the record's event
\* reading 0 bytes with acknowledged set, which closes the file as well; every
\* other step leaves a STREAMING record STREAMING or takes it to AWAITING_ACK.
C18_DirectCloseOnlyByPeerOrZeroRead ==
  [][\A k \in Range(list) :
       (STREAMING(k) /\ CLOSED(k)') =>
         /\ k = events[i + 1]
         /\ \/ /\ DrainRan
               /\ \/ errno' = "ECONNRESET"
                  \/ received' = 0 /\ total_bytes_in' = 0
               /\ conn'[k].fp = conn[k].fp
            \/ /\ pc = "epollout"
               /\ acknowledged # 0
               /\ freads'[k] = Append(freads[k], 0)
               /\ conn'[k].fp = NULL]_vars

\* One record was closed by its peer while its file was being sent, never
\* having waited for the token; another was closed after the short read that
\* ended its file had left it waiting.
C18_Witness ==
  \E k, j \in Range(list) :
    /\ CLOSED(k) /\ conn[k].fp # NULL /\ wire[k] = <<<<1, BUFLEN>>>> /\ closes[k] = 1
    /\ CLOSED(j) /\ conn[j].fp = NULL /\ freads[j] = <<3>> /\ closes[j] = 1
    /\ pc = "loop"

\* C19: while the loop runs, a record that is not STREAMING (it is
\* AWAITING_ACK or CLOSED) has fp NULL and its file closed.
C19_SourceOnlyWhileStreaming ==
  InLoop =>
    \A k \in Range(list) :
      (AWAITING_ACK(k) \/ CLOSED(k)) => conn[k].fp = NULL /\ ~stream[k].open

\* C20: epoll_wait failing with EINTR ends the process with status 0 after
\* every record of the list had its socket closed if socket_fd was not 0, its
\* file closed if fp was not NULL, and was freed once; no other descriptor is
\* closed, none for a record whose socket_fd is 0, and close_connection is
\* not called.
C20_InterruptedClearsAndExitsZero ==
  [][(pc = "loop" /\ pc' = "exited" /\ errno' = "EINTR") =>
       /\ exit_status' = 0
       /\ fds' = fds \ {conn[k].socket_fd : k \in Open}
       /\ StdFds \subseteq fds'
       /\ closes' = closes
       /\ \A k \in Range(list) :
            /\ sockfd(k) \notin fds'
            /\ sockfd(k) \notin epoll'
            /\ ~stream'[k].open
            /\ freed[k] = 0
            /\ freed'[k] = 1]_vars

\* The signal came when one record was CLOSED and another was still sending
\* its file: both are freed, the open socket and the open file are closed.
C20_Witness ==
  /\ pc = "exited"
  /\ errno = "EINTR"
  /\ exit_status = 0
  /\ \E k, j \in Range(list) :
       /\ CLOSED(k) /\ closes[k] = 1 /\ conn[k].fp = NULL
       /\ STREAMING(j) /\ wire[j] # <<>>
       /\ sockfd(j) \notin fds /\ ~stream[j].open
       /\ freed[k] = 1 /\ freed[j] = 1

\* C21: epoll_wait failing with an errno other than EINTR ends the process
\* with a status that is not 0 after every record of the list had its socket
\* closed, its file closed and was freed.
C21_WaitFailureClearsBeforeExit ==
  [][(pc = "loop" /\ pc' = "exited" /\ errno' # "EINTR") =>
       /\ exit_status' # 0
       /\ \A k \in Range(list) :
            /\ sockfd(k) \notin fds'
            /\ ~stream'[k].open
            /\ freed'[k] = 1]_vars

\* C22: a connection whose socket was opened and for which malloc returned no
\* record exists only in a process that has exited with a status that is not
\* 0; in particular the loop never runs with such a connection in conn_cnt.
C22_AllocationFailureIsFatal ==
  (\E k \in Args \ Range(list) : sockfd(k) \in fds) =>
    pc = "exited" /\ exit_status # 0

\* C26: no step runs the recv loop for a record whose socket_fd is 0, reads
\* its file or sends for it; so when the EPOLLIN block of an event has closed
\* the connection, the EPOLLOUT block of that event leaves the file and the
\* wire as they were.
C26_NoIoAfterClosed ==
  [][\A k \in Range(list) :
       CLOSED(k) =>
         /\ ~(DrainRan /\ k = events[i + 1])
         /\ freads'[k] = freads[k]
         /\ stream'[k].pos = stream[k].pos
         /\ wire'[k] = wire[k]
         /\ conn'[k].buffer = conn[k].buffer]_vars

\* The EPOLLIN block of an event has just closed a connection whose file
\* still has bytes to send, and the EPOLLOUT block of the event is next.
C26_Witness ==
  /\ pc = "epollout"
  /\ buffer # <<>>
  /\ LET c == events[i + 1]
     IN  /\ CLOSED(c)
         /\ closes[c] = 1
         /\ conn[c].fp # NULL
         /\ stream[c].pos < stream[c].size

\* ------------------------------------------- edge-triggered notification

\* ev.events = EPOLLIN | EPOLLOUT | EPOLLET: an event is reported for a
\* descriptor when its readiness changes, and the bits of the event are what
\* is ready then.  A connected socket is writable from the start and stays
\* so: a record has one event to come for that, until its first event has
\* been handled, which an EPOLLOUT cycle for it shows.
Fresh(k) == freads[k] = <<>>

\* epoll_wait returns a batch that reports, for at least one record, that its
\* socket became writable.
EpollWaitWritable ==
  /\ EpollWait
  /\ \E k \in Range(events') : Fresh(k)

\* epoll_wait returns a batch only of records whose peer has sent data, shut
\* down or reset the connection since their last event.
EpollWaitPeer ==
  /\ EpollWait
  /\ \A k \in Range(events') : ~Fresh(k)

\* The EPOLLIN block under edge-triggered notification: an event for a record
\* that had its first event comes from the peer, so EPOLLIN is set and the
\* drain finds data, the end of the stream or an error.
EpollInET ==
  /\ EpollIn
  /\ ~Fresh(events[i + 1]) => (buffer' # <<>> /\ (recvs' # <<>> \/ errno' # "EAGAIN"))

\* The EPOLLOUT block under edge-triggered notification: the socket is
\* writable, so every event has EPOLLOUT set and send does not fail.
EpollOutET ==
  /\ EpollOut
  /\ pc' # "exited"
  /\ STREAMING(events[i + 1]) => freads'[events[i + 1]] # freads[events[i + 1]]

NextET ==
  \/ SkipArg
  \/ SetupFails
  \/ OpenConnection
  \/ RegisterSockets
  \/ EpollWaitWritable
  \/ EpollWaitPeer
  \/ EpollWaitInterrupted
  \/ EpollWaitFails
  \/ LoopExit
  \/ EpollInET
  \/ EpollOutET

\* The one thread of the process runs whenever it is not blocked: startup
\* goes on, a handler that has begun ends, and epoll_wait returns when an
\* event is to be reported for a socket that became writable.  Nothing makes
\* the peer send, a signal arrive or a call fail.
FairET ==
  /\ WF_vars(SkipArg \/ OpenConnection)
  /\ WF_vars(RegisterSockets)
  /\ WF_vars(EpollWaitWritable)
  /\ WF_vars(LoopExit)
  /\ WF_vars(EpollInET)
  /\ WF_vars(EpollOutET)

SpecET == Init /\ [][NextET]_vars /\ FairET

\* C23: under edge-triggered notification a file longer than BUFLEN that a
\* registered connection is sending is eventually read to its end and its
\* bytes all sent, unless the peer closes the connection or the process ends
\* first.
C23_LongFileEventuallySent ==
  \A k \in Args :
    (pc = "loop" /\ k \in Range(list) /\ stream[k].size > BUFLEN) ~>
      \/ conn[k].fp = NULL /\ wire[k] = FileContent(stream[k].size)
      \/ CLOSED(k)
      \/ pc \in {"exited", "returned"}

\* C24: under edge-triggered notification a connection for which recv has
\* returned 0 is eventually closed, whatever the drain had received before,
\* unless the process ends first.
C24_ShutdownEventuallyCloses ==
  \A k \in Args :
    (k \in fin /\ k \in Range(list)) ~> (CLOSED(k) \/ pc \in {"exited", "returned"})

\* ------------------------------------------------------------- the server

\* #define BUFLEN 512 of src/server.c.
SERVER_BUFLEN == 512

\* Most bytes the peers of the server send on one connection.
MaxServerBytes == 4

\* The descriptor of the listening socket, and the one accept returns for
\* connection k; the epoll descriptor lies between them.
listenfd == 3
connfd(k) == 4 + k

\* The part of the server's state a handler threads through its calls.
ServerMachine ==
  [s_pc |-> s_pc, s_exit_status |-> s_exit_status, s_fds |-> s_fds,
   s_epoll |-> s_epoll, dels |-> dels]

ServerExit(m, status) == [m EXCEPT !.s_pc = "exited", !.s_exit_status = status]

ServerCommit(m) ==
  /\ s_pc' = m.s_pc
  /\ s_exit_status' = m.s_exit_status
  /\ s_fds' = m.s_fds
  /\ s_epoll' = m.s_epoll
  /\ dels' = m.dels

\* socket, setsockopt, bind, listen, epoll_create1 and the registration of
\* listenfd: all succeed, or one fails and the server exits 1.
ServerStart ==
  /\ s_pc = "start"
  /\ \/ /\ s_pc' = "wait"
        /\ s_fds' = {listenfd}
        /\ s_epoll' = {listenfd}
        /\ UNCHANGED s_exit_status
     \/ /\ s_pc' = "exited"
        /\ s_exit_status' = 1
        /\ UNCHANGED <<s_fds, s_epoll>>
  /\ UNCHANGED <<accepted, msgsizes, dels, s_fin>>
  /\ UNCHANGED cvars

\* The server's epoll_wait returns -1 with EINTR: close(listenfd); exit(0).
ServerInterrupted ==
  /\ s_pc = "wait"
  /\ s_fds' = s_fds \ {listenfd}
  /\ s_epoll' = s_epoll \ {listenfd}
  /\ s_pc' = "exited"
  /\ s_exit_status' = 0
  /\ UNCHANGED <<accepted, msgsizes, dels, s_fin>>
  /\ UNCHANGED cvars

\* The server's epoll_wait returns -1 with any other errno.
ServerWaitFails ==
  /\ s_pc = "wait"
  /\ s_pc' = "exited"
  /\ s_exit_status' = 1
  /\ UNCHANGED <<s_fds, s_epoll, accepted, msgsizes, dels, s_fin>>
  /\ UNCHANGED cvars

\* An event for listenfd with EPOLLIN: accept returns the descriptor of
\* connection k, it is made non-blocking and registered with
\* EPOLLIN | EPOLLOUT; accept, fcntl or epoll_ctl failing is exit(1).
ServerAcceptOf(k) ==
  /\ s_pc = "wait"
  /\ listenfd \in s_epoll
  /\ k \notin accepted
  /\ \/ /\ accepted' = accepted \cup {k}
        /\ s_fds' = s_fds \cup {connfd(k)}
        /\ s_epoll' = s_epoll \cup {connfd(k)}
        /\ UNCHANGED <<s_pc, s_exit_status>>
     \/ /\ s_pc' = "exited"
        /\ s_exit_status' = 1
        /\ UNCHANGED <<accepted, s_fds, s_epoll>>
  /\ UNCHANGED <<msgsizes, dels, s_fin>>
  /\ UNCHANGED cvars

ServerAccept == \E k \in Args : ServerAcceptOf(k)

\* epoll_ctl(epollfd, EPOLL_CTL_DEL, events[i].data.fd, &ev), exit(1) when it
\* fails, which it does for a descriptor that is closed or not in the
\* interest list; then close(events[i].data.fd).
ServerClose(m, k) ==
  LET called == [m EXCEPT !.dels[k] = @ + 1]
  IN  IF connfd(k) \notin called.s_epoll \/ connfd(k) \notin called.s_fds
        THEN ServerExit(called, 1)
        ELSE [called EXCEPT !.s_epoll = @ \ {connfd(k)}, !.s_fds = @ \ {connfd(k)}]

\* msgsize += bytes_read over the calls of the recv loop.
RECURSIVE MsgSize(_)
MsgSize(chunks) ==
  IF chunks = <<>> THEN 0 ELSE Head(chunks) + MsgSize(Tail(chunks))

\* The EPOLLIN block of the server for connection k: the recv loop, then
\* if ( -1 == bytes_read ) with an errno other than EAGAIN the descriptor is
\* deregistered and closed, then if ( 0 == msgsize ) it is deregistered and
\* closed.
ServerReadReady(m, k, script) ==
  LET msgsize == MsgSize(script.chunks)
      m1 == IF script.end = "ECONNRESET" THEN ServerClose(m, k) ELSE m
  IN  IF m1.s_pc = "exited"
        THEN m1
        ELSE IF 0 = msgsize THEN ServerClose(m1, k) ELSE m1

\* An event for connfd(k) with EPOLLIN, the calls of its recv loop returning
\* what script says.
ServerReadOf(k, script) ==
  /\ s_pc = "wait"
  /\ connfd(k) \in s_epoll
  /\ ServerCommit(ServerReadReady(ServerMachine, k, script))
  /\ msgsizes' = [msgsizes EXCEPT ![k] = @ + MsgSize(script.chunks)]
  /\ s_fin' = IF script.end = "SHUTDOWN" THEN s_fin \cup {k} ELSE s_fin
  /\ UNCHANGED accepted
  /\ UNCHANGED cvars

\* What one recv of the server can return, as a byte count: at most
\* sizeof(buffer) - 1, and the code looks only at whether the sum is 0.
ServerChunks == {k \in {1, 2} : k <= SERVER_BUFLEN - 1}

\* What the calls of one recv loop of the server can return.  The event is
\* level-triggered, so the first call does not find the socket empty; once
\* the end of the stream was reported no data follows it.
ServerScripts(k) ==
  LET seqs == UNION {[1 .. n -> ServerChunks] : n \in 0 .. MaxRecv}
      all == IF k \in s_fin
               THEN [chunks : {<<>>}, end : {"SHUTDOWN", "ECONNRESET"}]
               ELSE [chunks : seqs, end : {"EAGAIN", "SHUTDOWN", "ECONNRESET"}]
  IN  {sc \in all : /\ sc.chunks # <<>> \/ sc.end # "EAGAIN"
                    /\ msgsizes[k] + MsgSize(sc.chunks) <= MaxServerBytes}

ServerRead == \E k \in Args : \E script \in ServerScripts(k) : ServerReadOf(k, script)

\* The handler of one event at a time: the handlers of a batch act on
\* different descriptors, and an event with EPOLLOUT alone does nothing.
NextServer ==
  \/ ServerStart
  \/ ServerInterrupted
  \/ ServerWaitFails
  \/ ServerAccept
  \/ ServerRead

SpecServer == Init /\ [][NextServer]_vars

\* ------------------------------------------- the client and the server

\* The number of bytes in a string of file bytes.
RECURSIVE WireLen(_)
WireLen(runs) ==
  IF runs = <<>> THEN 0 ELSE (Head(runs)[2] - Head(runs)[1] + 1) + WireLen(Tail(runs))

\* connect has returned 0 for the socket of argv[k].
Connected(k) == k \in Range(list) \/ sockfd(k) \in fds

\* The client's end of connection k is closed: by close, or by the end of the
\* process.
ClientGone(k) == Connected(k) /\ (sockfd(k) \notin fds \/ pc \in {"exited", "returned"})

\* The server's end of connection k is closed: by close, or by the end of
\* the process.
ServerGone(k) == (k \in accepted /\ connfd(k) \notin s_fds) \/ s_pc = "exited"

\* connect succeeds when the server listens.
OpenConnectionToServer ==
  /\ listenfd \in s_fds
  /\ OpenConnection

\* The server sends nothing (src/server.c has no send or write call), so all
\* that makes a socket of the client readable is the server closing its end;
\* a batch reports that, once, for the records that had their first event.
EpollWaitServerGone ==
  /\ EpollWait
  /\ \A k \in Range(events') : ~Fresh(k) /\ ServerGone(k) /\ k \notin fin

\* The EPOLLIN block of the client facing the server: it runs for a socket
\* whose other end is closed, recv delivers no data and returns 0 or fails
\* with ECONNRESET.
EpollInFromServer ==
  /\ EpollIn
  /\ ~Fresh(events[i + 1]) => buffer' # <<>>
  /\ buffer' # <<>> =>
       /\ ServerGone(events[i + 1])
       /\ recvs' = <<>>
       /\ received' = 0 \/ errno' = "ECONNRESET"

\* accept returns a connection a client has made.
ServerAcceptFromClient == \E k \in Args : Connected(k) /\ ServerAcceptOf(k)

\* The level-triggered event for connfd(k) is reported while bytes the
\* client has sent are unread or the client's end is closed; the recv loop
\* returns the unread bytes and then 0 when the client's end is closed,
\* EAGAIN when it is not.
ServerReadFromClient ==
  \E k \in Args :
    LET unread == WireLen(wire[k]) - msgsizes[k]
    IN  /\ unread > 0 \/ ClientGone(k)
        /\ ServerReadOf(k, [chunks |-> IF unread > 0 THEN <<unread>> ELSE <<>>,
                            end |-> IF ClientGone(k) THEN "SHUTDOWN" ELSE "EAGAIN"])

NextBoth ==
  \/ SkipArg
  \/ SetupFails
  \/ OpenConnectionToServer
  \/ RegisterSockets
  \/ EpollWaitWritable
  \/ EpollWaitServerGone
  \/ EpollWaitInterrupted
  \/ EpollWaitFails
  \/ LoopExit
  \/ EpollInFromServer
  \/ EpollOutET
  \/ ServerStart
  \/ ServerInterrupted
  \/ ServerWaitFails
  \/ ServerAcceptFromClient
  \/ ServerReadFromClient

SpecBoth == Init /\ [][NextBoth]_vars

\* C25: the client and the server are never both blocked in epoll_wait with a
\* connection whose file the client has sent whole and closed, whose bytes
\* the server has all received, which both ends hold open, and with no event
\* left to report to either: the client waiting for the token or the end of
\* the stream, the server for the end of the stream.
C25_NoMutualWait ==
  ~ \E k \in Range(list) :
      /\ pc = "loop"
      /\ AWAITING_ACK(k)
      /\ wire[k] = FileContent(stream[k].size)
      /\ \A j \in Registered : ~Fresh(j) /\ ~ServerGone(j)
      /\ s_pc = "wait"
      /\ k \in accepted
      /\ connfd(k) \in s_fds
      /\ \A j \in Args : WireLen(wire[j]) = msgsizes[j] /\ (Connected(j) => j \in accepted)
      /\ \A j \in accepted : connfd(j) \in s_fds => ~ClientGone(j)

\* C27: EPOLL_CTL_DEL is called at most once for the descriptor of a
\* connection, and a connection for which it was called is deregistered and
\* closed while the server goes on.
C27_ServerClosesOnce ==
  \A k \in Args :
    /\ dels[k] <= 1
    /\ dels[k] = 1 => connfd(k) \notin s_epoll /\ connfd(k) \notin s_fds

====
